---- MODULE Spec2Model ----
(***************************************************************************)
(* Model of the streaming multipart upload engine of minior:               *)
(* core/upload/upload_object.rs (upload_object and the part tasks spawned  *)
(* by spawn_upload_future) over the backend primitives of                  *)
(* core/upload/util.rs.                                                    *)
(*                                                                         *)
(* Byte buffers (Vec<u8>) are kept as sequences of runs [off, len]: the    *)
(* len stream bytes starting at stream offset off.  Adjacent runs are      *)
(* merged, so a buffer holding the stream bytes a..b-1 in order is the     *)
(* single run <<[off |-> a, len |-> b - a]>>.  Sizes are real byte counts. *)
(***************************************************************************)
EXTENDS Integers, Sequences, FiniteSets, TLC

(* ---------------------------------------------------------------------- *)
(* Bounds of the model                                                     *)
(* ---------------------------------------------------------------------- *)

\* A stream delivers at most this many non-empty reads before end of stream.
MaxReads == 5

(* ---------------------------------------------------------------------- *)
(* Program constants                                                       *)
(* ---------------------------------------------------------------------- *)

DefaultBufferSize == 100000
MinBufferSize == 4096
DefaultDataPartSize == 5242880
MinDataPartSize == 5242880
DefaultSemaphorePermits == 4
MinSemaphorePermits == 1
CounterStart == 1

\* Option<usize>::None
None == -1

\* Caller-supplied UploadObjectAdditionalOptions that the model explores.
BufferSizeOptions == {None, 100, 2097152, 3145728}
DataPartSizeOptions == {None, 0, 6291456}
SemaphorePermitsOptions == {None, 0, 2}

\* Sizes a single read may return (besides a completely filled buffer).
ReadSizeChoices == {1048576, 2097152}

(* ---------------------------------------------------------------------- *)
(* Pure helpers                                                            *)
(* ---------------------------------------------------------------------- *)

\* Variant of Max that returns the smaller argument
Max_Smaller(a, b) == IF a >= b THEN b ELSE a

\* usize::max
Max(a, b) == IF a >= b THEN a ELSE b

\* Option::unwrap_or
UnwrapOr(o, d) == IF o = None THEN d ELSE o

\* upload_object.rs:130
EffectiveBufferSize(o) == Max(UnwrapOr(o, DefaultBufferSize), MinBufferSize)

\* upload_object.rs:131
EffectiveDataPartSize(o) == Max(UnwrapOr(o, DefaultDataPartSize), MinDataPartSize)

\* upload_object.rs:132
EffectiveSemaphorePermits(o) ==
    Max(UnwrapOr(o, DefaultSemaphorePermits), MinSemaphorePermits)

\* Vec::len of a byte buffer
RECURSIVE BufLen(_)
BufLen(buf) == IF buf = <<>> THEN 0 ELSE Head(buf).len + BufLen(Tail(buf))

\* Variant of ExtendFromSlice that overwrites the buffer with the slice
ExtendFromSlice_Overwrite(buf, off, n) ==
    IF n = 0 THEN buf ELSE <<[off |-> off, len |-> n]>>

\* Vec::extend_from_slice with the n stream bytes starting at offset off
ExtendFromSlice(buf, off, n) ==
    IF n = 0 THEN buf
    ELSE IF buf # <<>> /\ buf[Len(buf)].off + buf[Len(buf)].len = off
         THEN [buf EXCEPT ![Len(buf)].len = @ + n]
         ELSE Append(buf, [off |-> off, len |-> n])

\* Concatenation of two byte buffers
RECURSIVE BufConcat(_, _)
BufConcat(a, b) ==
    IF b = <<>> THEN a
    ELSE BufConcat(ExtendFromSlice(a, Head(b).off, Head(b).len), Tail(b))

\* Variant of ThresholdReached that dispatches whenever the accumulator is
\* not empty
ThresholdReached_NonEmpty(buf, data_part_size) == BufLen(buf) > 0

\* Variant of ThresholdReached that does not dispatch an accumulator of
\* exactly data_part_size bytes
ThresholdReached_Strict(buf, data_part_size) == BufLen(buf) > data_part_size

\* `data_part_buffer.len() >= data_part_size`: upload_object.rs:166
ThresholdReached(buf, data_part_size) == BufLen(buf) >= data_part_size

\* Variant of NeedsStart that starts a session at every threshold crossing
NeedsStart_EveryCrossing(uid) == TRUE

\* `upload_id.is_none()`: upload_object.rs:167
NeedsStart(uid) == uid = None

\* Variant of SingleShot with the size comparison inverted
SingleShot_Inverted(handles, buf, data_part_size) ==
    handles = <<>> /\ BufLen(buf) > data_part_size

\* `join_handles.is_empty() && data_part_buffer.len() < data_part_size`:
\* upload_object.rs:154
SingleShot(handles, buf, data_part_size) ==
    handles = <<>> /\ BufLen(buf) < data_part_size

\* Variant of BufferAfterSwap that copies the accumulator instead of moving it
BufferAfterSwap_Copy(buf) == buf

\* data_part_buffer after `std::mem::swap(&mut data_part_buffer, &mut bytes)`
\* with bytes = vec![]: upload_object.rs:173-174 and 196-197
BufferAfterSwap(buf) == <<>>

\* The first n bytes of the stream, in order
StreamPrefix(n) == IF n = 0 THEN <<>> ELSE <<[off |-> 0, len |-> n]>>

\* Values of error::Error, tagged with the call that produced them
NoError == [kind |-> "None", op |-> "", n |-> 0]
StdIoError == [kind |-> "StdIo", op |-> "read", n |-> 0]
SdkError(op, n) == [kind |-> "SdkError", op |-> op, n |-> n]
InternalError(op, n) == [kind |-> "Internal", op |-> op, n |-> n]
JoinError == [kind |-> "JoinError", op |-> "", n |-> 0]

NoResult == [tag |-> "none", bytes |-> 0, err |-> NoError]
Ok(n) == [tag |-> "Ok", bytes |-> n, err |-> NoError]
Err(e) == [tag |-> "Err", bytes |-> 0, err |-> e]

NoCalls == [put |-> 0, start |-> 0, upload_part |-> 0, complete |-> 0, abort |-> 0]

(* ---------------------------------------------------------------------- *)
(* State                                                                   *)
(* ---------------------------------------------------------------------- *)

VARIABLES
    options,          \* the caller's UploadObjectAdditionalOptions
    cfg,              \* effective buffer_size, data_part_size, semaphore_permits
    pc,               \* where upload_object is suspended
    stream_pos,       \* number of bytes the stream has delivered
    reads,            \* number of non-empty reads delivered
    eof,              \* the stream has returned a zero-length read
    total_bytes,      \* upload_object's total_bytes
    data_part_buffer, \* upload_object's data_part_buffer
    upload_id,        \* Option<String>: None or the session id
    join_handles,     \* the spawned part tasks, in dispatch order
    counter,          \* the shared AtomicUsize
    permits,          \* permits available in the semaphore
    e_tags,           \* upload_object's e_tags
    join_idx,         \* position of the `for join_handle in join_handles` loop
    pending_err,      \* the failure that triggered Abort
    result,           \* the value upload_object returned
    calls,            \* number of backend requests sent, per operation
    put_body,         \* body of the PutObject request
    complete_arg,     \* the part list sent with CompleteMultipartUpload
    responses,        \* what the backend answered to upload_object's requests
    mgr,              \* the UploadManager / PresignedUploadManager value
    mgr_requests,     \* backend requests sent through the manager, in order
    mgr_returns,      \* what each call on the manager returned, in call order
    mgr_e_tags        \* the list the caller passed to the last complete call

\* State of a manual upload session (upload_object_multi.rs,
\* upload_object_multi_presigned.rs)
mgr_vars == <<mgr, mgr_requests, mgr_returns, mgr_e_tags>>

\* State of an upload_object call (upload_object.rs)
upload_vars == <<options, cfg, pc, stream_pos, reads, eof, total_bytes,
                 data_part_buffer, upload_id, join_handles, counter, permits,
                 e_tags, join_idx, pending_err, result, calls, put_body,
                 complete_arg, responses>>

vars == <<upload_vars, mgr_vars>>

driver_vars == <<pc, stream_pos, reads, eof, total_bytes, data_part_buffer,
                 upload_id, e_tags, join_idx, pending_err, result, put_body,
                 complete_arg, responses>>

Tasks == 1..Len(join_handles)

Finished(t) == t.state \in {"ok", "err", "panicked"}

\* No manual upload session has been opened.
NoManager == [state |-> "none", kind |-> "none", upload_id |-> None,
              part_index |-> 0]

MgrIdle ==
    /\ mgr = NoManager
    /\ mgr_requests = <<>>
    /\ mgr_returns = <<>>
    /\ mgr_e_tags = <<>>

NoResponses == [put |-> "none", start |-> "none", complete |-> "none",
                abort |-> "none"]

\* What the backend answered: "ok" or "err"
Answer(ok) == IF ok THEN "ok" ELSE "err"

\* The set of UploadObjectAdditionalOptions values the model explores
AllOptions ==
    [buffer_size : BufferSizeOptions, data_part_size : DataPartSizeOptions,
     semaphore_permits : SemaphorePermitsOptions]

\* upload_object.rs:130-143, called with the options opts
UploadInit(opts) ==
    /\ options = opts
    /\ cfg = [buffer_size |-> EffectiveBufferSize(opts.buffer_size),
              data_part_size |-> EffectiveDataPartSize(opts.data_part_size),
              semaphore_permits |->
                  EffectiveSemaphorePermits(opts.semaphore_permits)]
    /\ pc = "reading"
    /\ stream_pos = 0
    /\ reads = 0
    /\ eof = FALSE
    /\ total_bytes = 0
    /\ data_part_buffer = <<>>
    /\ upload_id = None
    /\ join_handles = <<>>
    /\ counter = CounterStart
    /\ permits = cfg.semaphore_permits
    /\ e_tags = <<>>
    /\ join_idx = 1
    /\ pending_err = NoError
    /\ result = NoResult
    /\ calls = NoCalls
    /\ put_body = <<>>
    /\ complete_arg = <<>>
    /\ responses = NoResponses

Init ==
    /\ \E opts \in AllOptions : UploadInit(opts)
    /\ MgrIdle

(* ---------------------------------------------------------------------- *)
(* Backend (object-storage collaborator)                                   *)
(* ---------------------------------------------------------------------- *)

\* Session id issued by the n-th CreateMultipartUpload request: ids are fresh.
SessionId(n) == n

\* Integrity tag the backend returns for an UploadPart request: it identifies
\* the part number and the body of that request.
NoETag == [pn |-> 0, body |-> <<>>]
ETagOf(part_number, bytes) == [pn |-> part_number, body |-> bytes]

\* Outcomes of the backend calls
StartOutcomes == {"ok", "sdk_err", "no_upload_id"}
UploadPartOutcomes == {"ok", "sdk_err", "no_e_tag", "panic"}

(* ---------------------------------------------------------------------- *)
(* Part tasks                                                              *)
(* ---------------------------------------------------------------------- *)

\* spawn_upload_future: tokio::spawn of a task owning bytes and upload_id;
\* the JoinHandle is pushed onto join_handles.
SpawnUploadFuture_NoSession(handles, bytes, uid) ==
    Append(handles, [bytes |-> bytes, upload_id |-> None, state |-> "spawned",
                     part_number |-> 0, e_tag |-> NoETag, err |-> NoError])
SpawnUploadFuture(handles, bytes, uid) ==
    Append(handles, [bytes |-> bytes, upload_id |-> uid, state |-> "spawned",
                     part_number |-> 0, e_tag |-> NoETag, err |-> NoError])

\* Semaphore::acquire_owned: takes one permit
AcquireOwned(p) == p - 1

\* Drop of an OwnedSemaphorePermit: gives the permit back
DropPermit(p) == p + 1

\* `let _ = semaphore.clone().acquire_owned().await.map_err(..)?;`
\* The permit is bound to the pattern `_`, which binds nothing: the permit is
\* a temporary of the let statement and is dropped at its end, before
\* fetch_add and before upload_part.
PermitsAfterLetUnderscore_Held(p) == AcquireOwned(p)
PermitsAfterLetUnderscore(p) == DropPermit(AcquireOwned(p))

\* counter.fetch_add(1, Ordering::SeqCst): the value of the counter afterwards
FetchAdd_NoIncrement(c) == c
FetchAdd(c) == c + 1

\* The task body up to its first suspension inside upload_part: it obtains a
\* permit (and drops it at once), takes its part number from the shared
\* counter and sends the UploadPart request.
TaskStart(i) ==
    /\ i \in Tasks
    /\ join_handles[i].state = "spawned"
    /\ permits > 0
    /\ permits' = PermitsAfterLetUnderscore(permits)
    /\ counter' = FetchAdd(counter)
    /\ join_handles' = [join_handles EXCEPT ![i].state = "uploading",
                                            ![i].part_number = counter]
    /\ calls' = [calls EXCEPT !.upload_part = @ + 1]
    /\ UNCHANGED mgr_vars
    /\ UNCHANGED <<options, cfg, driver_vars>>

\* State of a task whose upload_part call returned an error: the task ends
\* with that error as its e_tag_result.
StateAfterFailure_Retry == "spawned"
StateAfterFailure == "err"

\* upload_part returns (or panics) and the task ends.
TaskFinish(i) ==
    /\ i \in Tasks
    /\ join_handles[i].state = "uploading"
    /\ \E o \in UploadPartOutcomes :
        LET t == join_handles[i] IN
        join_handles' = [join_handles EXCEPT ![i] =
            CASE o = "ok" ->
                   [t EXCEPT !.state = "ok",
                             !.e_tag = ETagOf(t.part_number, t.bytes)]
              [] o = "sdk_err" ->
                   [t EXCEPT !.state = StateAfterFailure,
                             !.err = SdkError("upload_part", t.part_number)]
              [] o = "no_e_tag" ->
                   [t EXCEPT !.state = StateAfterFailure,
                             !.err = InternalError("upload_part", t.part_number)]
              [] OTHER ->
                   [t EXCEPT !.state = "panicked"]]
    /\ UNCHANGED mgr_vars
    /\ UNCHANGED <<options, cfg, driver_vars, counter, permits, calls>>

(* ---------------------------------------------------------------------- *)
(* upload_object: the read loop                                            *)
(* ---------------------------------------------------------------------- *)

ReadSizes == {n \in ReadSizeChoices \cup {cfg.buffer_size} : n <= cfg.buffer_size}

\* Where upload_object continues after a failed stream.read: the `?` of
\* upload_object.rs:149 returns from the function.
PcAfterReadError_Retry == "reading"
PcAfterReadError == "done"

\* stream.read fails: upload_object.rs:146-149
ReadError ==
    /\ pc = "reading"
    /\ result' = Err(StdIoError)
    /\ pc' = PcAfterReadError
    /\ UNCHANGED mgr_vars
    /\ UNCHANGED <<options, cfg, stream_pos, reads, eof, total_bytes,
                   data_part_buffer,
                   upload_id, join_handles, counter, permits, e_tags, join_idx,
                   pending_err, calls, put_body, complete_arg, responses>>

\* Where upload_object is after `join_handles.push(spawn_upload_future(..)
\* .await)` in the loop: spawn_upload_future only calls tokio::spawn, so
\* the loop is at its next stream.read.
PcAfterDispatch_AwaitPart == "joining"
PcAfterDispatch == "reading"

\* The loop body after stream.read has returned n > 0 bytes:
\* upload_object.rs:151-191
ReadBytes(n) ==
    LET buf == ExtendFromSlice(data_part_buffer, stream_pos, n) IN
    /\ stream_pos' = stream_pos + n
    /\ reads' = reads + 1
    /\ total_bytes' = total_bytes + n
    /\ IF ThresholdReached(buf, cfg.data_part_size)
       THEN IF NeedsStart(upload_id)
            THEN \* start_multipart_upload(..).await
                 /\ calls' = [calls EXCEPT !.start = @ + 1]
                 /\ pc' = "starting"
                 /\ data_part_buffer' = buf
                 /\ UNCHANGED join_handles
            ELSE \* mem::swap and spawn
                 /\ join_handles' = SpawnUploadFuture(join_handles, buf, upload_id)
                 /\ data_part_buffer' = BufferAfterSwap(buf)
                 /\ pc' = PcAfterDispatch
                 /\ UNCHANGED calls
       ELSE /\ data_part_buffer' = buf
            /\ UNCHANGED <<calls, pc, join_handles>>
    /\ UNCHANGED mgr_vars
    /\ UNCHANGED <<options, cfg, eof, upload_id, counter, permits, e_tags,
                   join_idx, pending_err, result, put_body, complete_arg,
                   responses>>

\* stream.read returns n > 0 bytes: upload_object.rs:146-191
ReadData ==
    /\ pc = "reading"
    /\ reads < MaxReads
    /\ \E n \in ReadSizes : ReadBytes(n)

\* Where upload_object continues after start_multipart_upload(..).await?:
\* the loop goes on when a session id came back, the `?` returns otherwise.
PcAfterStart_Continue(o) == "reading"
PcAfterStart(o) == IF o = "ok" THEN "reading" ELSE "done"

\* start_multipart_upload returns: upload_object.rs:167-190, util.rs:30-46
StartReturn ==
    /\ pc = "starting"
    /\ \E o \in StartOutcomes :
        /\ responses' = [responses EXCEPT !.start = Answer(o = "ok")]
        /\ IF o = "ok"
           THEN /\ upload_id' = SessionId(calls.start)
                /\ join_handles' =
                       SpawnUploadFuture(join_handles, data_part_buffer,
                                         upload_id')
                /\ data_part_buffer' = BufferAfterSwap(data_part_buffer)
                /\ pc' = PcAfterStart(o)
                /\ UNCHANGED result
           ELSE /\ result' = Err(IF o = "sdk_err"
                                 THEN SdkError("create_multipart_upload", 0)
                                 ELSE InternalError("create_multipart_upload", 0))
                /\ pc' = PcAfterStart(o)
                /\ UNCHANGED <<upload_id, join_handles, data_part_buffer>>
    /\ UNCHANGED mgr_vars
    /\ UNCHANGED <<options, cfg, stream_pos, reads, eof, total_bytes, counter,
                   permits, e_tags, join_idx, pending_err, calls, put_body,
                   complete_arg>>

\* stream.read returns 0 bytes: upload_object.rs:153-161 and 194-211
ReadEof ==
    /\ pc = "reading"
    /\ eof' = TRUE
    /\ IF SingleShot(join_handles, data_part_buffer, cfg.data_part_size)
       THEN \* upload(..).await
            /\ calls' = [calls EXCEPT !.put = @ + 1]
            /\ put_body' = data_part_buffer
            /\ pc' = "putting"
            /\ UNCHANGED <<total_bytes, data_part_buffer, join_handles, result>>
       ELSE IF upload_id = None
            THEN /\ result' = Err(InternalError("upload_object", 0))
                 /\ pc' = "done"
                 /\ UNCHANGED <<total_bytes, data_part_buffer, join_handles,
                                calls, put_body>>
            ELSE /\ total_bytes' = total_bytes + BufLen(data_part_buffer)
                 /\ join_handles' =
                        SpawnUploadFuture(join_handles, data_part_buffer, upload_id)
                 /\ data_part_buffer' = BufferAfterSwap(data_part_buffer)
                 /\ pc' = "joining"
                 /\ UNCHANGED <<calls, put_body, result>>
    /\ UNCHANGED mgr_vars
    /\ UNCHANGED <<options, cfg, stream_pos, reads, upload_id, counter, permits,
                   e_tags, join_idx, pending_err, complete_arg, responses>>

\* Variant of PutResult that ignores the outcome of the PUT
PutResult_IgnoreError(ok, n) == Ok(n)

\* `upload(..).await?; return Ok(total_bytes);`: upload_object.rs:155-157
PutResult(ok, n) == IF ok THEN Ok(n) ELSE Err(SdkError("put_object", 0))

\* upload returns: upload_object.rs:155-157, util.rs:12-28
PutReturn ==
    /\ pc = "putting"
    /\ \E ok \in BOOLEAN :
         /\ responses' = [responses EXCEPT !.put = Answer(ok)]
         /\ result' = PutResult(ok, total_bytes)
    /\ pc' = "done"
    /\ UNCHANGED mgr_vars
    /\ UNCHANGED <<options, cfg, stream_pos, reads, eof, total_bytes,
                   data_part_buffer,
                   upload_id, join_handles, counter, permits, e_tags, join_idx,
                   pending_err, calls, put_body, complete_arg>>

(* ---------------------------------------------------------------------- *)
(* upload_object: joining the tasks, Abort and Complete                    *)
(* ---------------------------------------------------------------------- *)

\* The error the join loop returns for a task that did not yield an e_tag:
\* the task's own error, or JoinError when the task could not be joined.
ErrorOfTask_Generic(t) == JoinError
ErrorOfTask(t) == IF t.state = "err" THEN t.err ELSE JoinError

\* `e_tags.push(ETag { e_tag, part_number })`: the entry pairs the tag and the
\* part number that came back together in the task's UploadPartResult.
ETagEntry_ByPosition(t, position) == [e_tag |-> t.e_tag, part_number |-> position]
ETagEntry(t, position) == [e_tag |-> t.e_tag, part_number |-> t.part_number]

\* One iteration of `for join_handle in join_handles`: upload_object.rs:215-243
Join ==
    /\ pc = "joining"
    /\ join_idx \in Tasks
    /\ Finished(join_handles[join_idx])
    /\ LET t == join_handles[join_idx] IN
       IF t.state = "ok"
       THEN LET tags == Append(e_tags, ETagEntry(t, join_idx)) IN
            /\ e_tags' = tags
            /\ join_idx' = join_idx + 1
            /\ IF join_idx = Len(join_handles)
               THEN \* complete_multipart_upload(&client, e_tags, ..).await
                    /\ calls' = [calls EXCEPT !.complete = @ + 1]
                    /\ complete_arg' = tags
                    /\ pc' = "completing"
               ELSE UNCHANGED <<calls, complete_arg, pc>>
            /\ UNCHANGED pending_err
       ELSE \* abort_multipart_upload(..).await
            /\ calls' = [calls EXCEPT !.abort = @ + 1]
            /\ pending_err' = ErrorOfTask(t)
            /\ pc' = "aborting"
            /\ UNCHANGED <<e_tags, join_idx, complete_arg>>
    /\ UNCHANGED mgr_vars
    /\ UNCHANGED <<options, cfg, stream_pos, reads, eof, total_bytes,
                   data_part_buffer,
                   upload_id, join_handles, counter, permits, result, put_body,
                   responses>>

\* abort_multipart_upload returns: `.await?; return Err(err)`
AbortReturn ==
    /\ pc = "aborting"
    /\ \E ok \in BOOLEAN :
         /\ responses' = [responses EXCEPT !.abort = Answer(ok)]
         /\ result' = IF ok THEN Err(pending_err)
                       ELSE Err(SdkError("abort_multipart_upload", 0))
    /\ pc' = "done"
    /\ UNCHANGED mgr_vars
    /\ UNCHANGED <<options, cfg, stream_pos, reads, eof, total_bytes,
                   data_part_buffer,
                   upload_id, join_handles, counter, permits, e_tags, join_idx,
                   pending_err, calls, put_body, complete_arg>>

\* complete_multipart_upload returns: upload_object.rs:243-245
CompleteReturn ==
    /\ pc = "completing"
    /\ \E ok \in BOOLEAN :
         /\ responses' = [responses EXCEPT !.complete = Answer(ok)]
         /\ result' = IF ok THEN Ok(total_bytes)
                       ELSE Err(SdkError("complete_multipart_upload", 0))
    /\ pc' = "done"
    /\ UNCHANGED mgr_vars
    /\ UNCHANGED <<options, cfg, stream_pos, reads, eof, total_bytes,
                   data_part_buffer,
                   upload_id, join_handles, counter, permits, e_tags, join_idx,
                   pending_err, calls, put_body, complete_arg>>

Next ==
    \/ ReadError
    \/ ReadData
    \/ StartReturn
    \/ ReadEof
    \/ PutReturn
    \/ Join
    \/ AbortReturn
    \/ CompleteReturn
    \/ \E i \in Tasks : TaskStart(i)
    \/ \E i \in Tasks : TaskFinish(i)

Spec == Init /\ [][Next]_vars

\* A call dispatches at most one part per non-empty read, and the remainder.
MaxTasks == MaxReads + 1

\* Every stream read and every backend call eventually returns, the driving
\* task is eventually resumed, and every spawned task is eventually run.
Fairness ==
    /\ WF_vars(ReadData \/ ReadEof \/ ReadError)
    /\ WF_vars(StartReturn)
    /\ WF_vars(PutReturn)
    /\ WF_vars(Join)
    /\ WF_vars(AbortReturn)
    /\ WF_vars(CompleteReturn)
    /\ \A i \in 1..MaxTasks : WF_vars(TaskStart(i)) /\ WF_vars(TaskFinish(i))

FairSpec == Spec /\ Fairness

\* Calls with 1 and 2 permits, the buffer_size of 3145728 and the default
\* data_part_size: a part is dispatched at every second read.
GateOptions ==
    {[buffer_size |-> 3145728, data_part_size |-> None,
      semaphore_permits |-> p] : p \in {0, 2}}

GateInit ==
    /\ \E opts \in GateOptions : UploadInit(opts)
    /\ MgrIdle

\* stream.read fills the buffer.
GateRead ==
    /\ pc = "reading"
    /\ reads < MaxReads
    /\ ReadBytes(cfg.buffer_size)

GateNext ==
    \/ GateRead
    \/ ReadEof
    \/ ReadError
    \/ StartReturn
    \/ PutReturn
    \/ Join
    \/ AbortReturn
    \/ CompleteReturn
    \/ \E i \in Tasks : TaskStart(i)
    \/ \E i \in Tasks : TaskFinish(i)

GateFairness ==
    /\ WF_vars(GateRead \/ ReadEof \/ ReadError)
    /\ WF_vars(StartReturn)
    /\ WF_vars(PutReturn)
    /\ WF_vars(Join)
    /\ WF_vars(AbortReturn)
    /\ WF_vars(CompleteReturn)
    /\ \A i \in 1..MaxTasks : WF_vars(TaskStart(i)) /\ WF_vars(TaskFinish(i))

\* upload_object under fair scheduling, with backend calls that return
GateSpec == GateInit /\ [][GateNext]_vars /\ GateFairness

(* ---------------------------------------------------------------------- *)
(* End-to-end runs: a stream of a given length read in full buffers        *)
(* ---------------------------------------------------------------------- *)

Min(a, b) == IF a <= b THEN a ELSE b

\* The options of the end-to-end runs: the default configuration, and the
\* default configuration with data_part_size given as 5242880.
EndToEndOptions ==
    {[buffer_size |-> None, data_part_size |-> d, semaphore_permits |-> None] :
        d \in {None, 5242880}}

\* Length of the stream of an end-to-end run: 10 KB under the default
\* configuration, 12 MB when data_part_size is given.
EndToEndStreamLen(opts) ==
    IF opts.data_part_size = None THEN 10 * 1024 ELSE 12 * 1024 * 1024

EndToEndInit ==
    /\ \E opts \in EndToEndOptions : UploadInit(opts)
    /\ MgrIdle

\* stream.read fills the buffer, or returns what is left of the stream.
EndToEndRead ==
    /\ pc = "reading"
    /\ stream_pos < EndToEndStreamLen(options)
    /\ ReadBytes(Min(cfg.buffer_size, EndToEndStreamLen(options) - stream_pos))

\* stream.read returns 0 bytes once the whole stream has been delivered.
EndToEndEof ==
    /\ stream_pos = EndToEndStreamLen(options)
    /\ ReadEof

EndToEndNext ==
    \/ EndToEndRead
    \/ EndToEndEof
    \/ ReadError
    \/ StartReturn
    \/ PutReturn
    \/ Join
    \/ AbortReturn
    \/ CompleteReturn
    \/ \E i \in Tasks : TaskStart(i)
    \/ \E i \in Tasks : TaskFinish(i)

EndToEndSpec == EndToEndInit /\ [][EndToEndNext]_vars

(* ---------------------------------------------------------------------- *)
(* Manual upload sessions: UploadManager and PresignedUploadManager        *)
(* ---------------------------------------------------------------------- *)

\* Number of calls made on the manager type in one run
MaxMgrCalls == 4

\* A usize value hi * 2^31 + lo with 0 <= lo < 2^31. The values 0 .. 3 of hi
\* cover both sides of every i32 boundary below 2^33.
Usize(hi, lo) == [hi |-> hi, lo |-> lo]

\* `part_number as i32`: the low 32 bits, read as two's complement.
AsI32(u) == IF u.hi % 2 = 0 THEN u.lo ELSE (u.lo - 2147483647) - 1

\* The entries a caller can put in the list given to complete: the tags of
\* parts 1 and 2, and a tag recorded under a part number of 2^31.
CallerETags ==
    {[e_tag |-> "etag-1", part_number |-> Usize(0, 1)],
     [e_tag |-> "etag-2", part_number |-> Usize(0, 2)],
     [e_tag |-> "etag-1", part_number |-> Usize(1, 0)]}

\* The lists a caller can give to complete: any order, with gaps, repeated
\* entries, or empty.
CallerLists ==
    {<<>>} \cup {<<a>> : a \in CallerETags}
           \cup {<<a, b>> : a, b \in CallerETags}

\* complete_multipart_upload maps each ETag to a CompletedPart, in order.
CompletedParts(list) ==
    [i \in 1..Len(list) |->
        [e_tag |-> list[i].e_tag, part_number |-> AsI32(list[i].part_number)]]

MgrKinds == {"upload", "presigned"}

\* next_part of an UploadManager sends UploadPart; next_part of a
\* PresignedUploadManager builds a presigning configuration and presigns
\* an UploadPart request.
NextPartOutcomes(kind) ==
    IF kind = "upload" THEN {"ok", "sdk_err", "no_e_tag"}
    ELSE {"ok", "config_err", "sdk_err"}

\* The request of a manager call; call is the position of the call in the run.
MgrRequest(op, uid, pn, parts) ==
    [op |-> op, upload_id |-> uid, part_number |-> pn, parts |-> parts,
     call |-> Len(mgr_returns) + 1]

\* What a manager call returned; part_number is None unless next_part
\* returned Ok.
MgrReturn(op, ok, pn) ==
    [op |-> op, tag |-> IF ok THEN "Ok" ELSE "Err",
     part_number |-> IF ok THEN pn ELSE None]

\* part_index after next_part, whatever the outcome of the call.
PartIndexAfter_OnSuccess(part_index, o) ==
    IF o = "ok" THEN part_index + 1 ELSE part_index
PartIndexAfter(part_index, o) == part_index + 1

\* The session id a request of the manager carries.
SessionOf(m) == m.upload_id

\* UploadManager::new, PresignedUploadManager::new
MgrNew ==
    /\ mgr.state = "none"
    /\ Len(mgr_returns) < MaxMgrCalls
    /\ \E kind \in MgrKinds, o \in StartOutcomes :
         /\ mgr_requests' =
              Append(mgr_requests, MgrRequest("start", None, None, <<>>))
         /\ mgr_returns' = Append(mgr_returns, MgrReturn("new", o = "ok", None))
         /\ IF o = "ok"
            THEN mgr' = [state |-> "open", kind |-> kind,
                         upload_id |-> SessionId(Len(mgr_returns) + 1),
                         part_index |-> CounterStart]
            ELSE mgr' = mgr
    /\ UNCHANGED mgr_e_tags
    /\ UNCHANGED upload_vars

\* UploadManager::next_part, PresignedUploadManager::next_part
MgrNextPart ==
    /\ mgr.state = "open"
    /\ Len(mgr_returns) < MaxMgrCalls
    /\ \E o \in NextPartOutcomes(mgr.kind) :
         LET part_number == mgr.part_index IN
         /\ mgr' = [mgr EXCEPT !.part_index = PartIndexAfter(@, o)]
         /\ mgr_requests' =
              IF o = "config_err" THEN mgr_requests
              ELSE Append(mgr_requests,
                          MgrRequest(IF mgr.kind = "upload" THEN "upload_part"
                                     ELSE "presign_part",
                                     SessionOf(mgr),
                                     AsI32(Usize(0, part_number)), <<>>))
         /\ mgr_returns' =
              Append(mgr_returns, MgrReturn("next_part", o = "ok", part_number))
    /\ UNCHANGED mgr_e_tags
    /\ UNCHANGED upload_vars

\* UploadManager::abort, PresignedUploadManager::abort
MgrAbort ==
    /\ mgr.state = "open"
    /\ Len(mgr_returns) < MaxMgrCalls
    /\ \E ok \in BOOLEAN :
         /\ mgr_requests' =
              Append(mgr_requests, MgrRequest("abort", SessionOf(mgr), None, <<>>))
         /\ mgr_returns' = Append(mgr_returns, MgrReturn("abort", ok, None))
    /\ UNCHANGED <<mgr, mgr_e_tags>>
    /\ UNCHANGED upload_vars

\* UploadManager::complete, PresignedUploadManager::complete
MgrComplete ==
    /\ mgr.state = "open"
    /\ Len(mgr_returns) < MaxMgrCalls
    /\ \E list \in CallerLists, ok \in BOOLEAN :
         /\ mgr_e_tags' = list
         /\ mgr_requests' =
              Append(mgr_requests,
                     MgrRequest("complete", SessionOf(mgr), None,
                                CompletedParts(list)))
         /\ mgr_returns' = Append(mgr_returns, MgrReturn("complete", ok, None))
    /\ UNCHANGED mgr
    /\ UNCHANGED upload_vars

ManagerInit ==
    /\ UploadInit([buffer_size |-> None, data_part_size |-> None,
                   semaphore_permits |-> None])
    /\ MgrIdle

ManagerNext ==
    \/ MgrNew
    \/ MgrNextPart
    \/ MgrAbort
    \/ MgrComplete

ManagerSpec == ManagerInit /\ [][ManagerNext]_vars

(* ---------------------------------------------------------------------- *)
(* Type invariant                                                          *)
(* ---------------------------------------------------------------------- *)

TypeOK ==
    /\ pc \in {"reading", "starting", "putting", "joining", "aborting",
               "completing", "done"}
    /\ stream_pos \in Nat /\ reads \in 0..MaxReads /\ eof \in BOOLEAN
    /\ total_bytes \in Nat
    /\ counter \in Nat /\ permits \in 0..cfg.semaphore_permits
    /\ \A i \in Tasks :
         join_handles[i].state \in {"spawned", "uploading", "ok", "err", "panicked"}
    /\ result.tag \in {"none", "Ok", "Err"}
    /\ (pc = "done") = (result.tag # "none")
    /\ mgr.state \in {"none", "open"} /\ mgr.kind \in MgrKinds \cup {"none"}
    /\ mgr.part_index \in Nat
    /\ Len(mgr_returns) <= MaxMgrCalls /\ Len(mgr_requests) <= Len(mgr_returns)
    /\ mgr_e_tags \in CallerLists


(* ---------------------------------------------------------------------- *)
(* Observations used by the properties                                     *)
(* ---------------------------------------------------------------------- *)

CeilDiv(a, b) == (a + b - 1) \div b

Uploading == {i \in Tasks : join_handles[i].state = "uploading"}

AllTasksStarted == \A i \in Tasks : join_handles[i].state # "spawned"

\* The body uploaded under part number n
PartBody(n) == (CHOOSE i \in Tasks : join_handles[i].part_number = n).bytes

\* The object the backend assembles from parts 1..n in ascending part number
RECURSIVE Assemble(_)
Assemble(n) == IF n = 0 THEN <<>> ELSE BufConcat(Assemble(n - 1), PartBody(n))

MultipartSuccess == result.tag = "Ok" /\ calls.complete = 1

(* ---------------------------------------------------------------------- *)
(* C1                                                                      *)
(* ---------------------------------------------------------------------- *)

\* C1: the chunk swapped out at the k-th dispatch is uploaded under part
\* number k, and on a successful multipart run the parts concatenated in
\* ascending part number are exactly the bytes read from the stream.
C1_ChunkKIsPartK ==
    /\ \A k \in Tasks :
         join_handles[k].part_number # 0 => join_handles[k].part_number = k
    /\ MultipartSuccess =>
         Assemble(Len(join_handles)) = StreamPrefix(stream_pos)

(* ---------------------------------------------------------------------- *)
(* C2                                                                      *)
(* ---------------------------------------------------------------------- *)

\* C2: at most semaphore_permits part tasks are inside their UploadPart
\* network call at the same time.
C2_AtMostPermitsInFlight == Cardinality(Uploading) <= cfg.semaphore_permits

(* ---------------------------------------------------------------------- *)
(* C3                                                                      *)
(* ---------------------------------------------------------------------- *)

\* C3: on a successful multipart upload the part numbers of the list passed
\* to Complete are 1, 2, ..., n in this order.
C3_CompleteListAscendingFromOne ==
    MultipartSuccess =>
        \A i \in 1..Len(complete_arg) : complete_arg[i].part_number = i

(* ---------------------------------------------------------------------- *)
(* C4                                                                      *)
(* ---------------------------------------------------------------------- *)

\* C4: when upload_object has returned an error, the session was never
\* created or Abort has been invoked on it.
C4_ErrorMeansNoSessionOrAborted ==
    result.tag = "Err" => (upload_id = None \/ calls.abort >= 1)

(* ---------------------------------------------------------------------- *)
(* C5                                                                      *)
(* ---------------------------------------------------------------------- *)

\* C5: once upload_object has returned, if a dispatched part upload has
\* failed then Abort was called exactly once and Complete was never called.
C5_PartFailureAbortsExactlyOnce ==
    (pc = "done" /\ \E i \in Tasks : join_handles[i].state = "err")
        => (calls.abort = 1 /\ calls.complete = 0)

(* ---------------------------------------------------------------------- *)
(* C6                                                                      *)
(* ---------------------------------------------------------------------- *)

\* C6: when a part-upload or join failure has triggered Abort, upload_object
\* returns that triggering failure, whether or not Abort itself succeeded.
C6_AbortFailureKeepsOriginalError ==
    (pc = "done" /\ calls.abort >= 1) => result = Err(pending_err)

(* ---------------------------------------------------------------------- *)
(* C7                                                                      *)
(* ---------------------------------------------------------------------- *)

\* C7: while the stream has delivered fewer than data_part_size bytes no
\* Start, UploadPart, Complete or Abort request is sent, and PutObject is
\* sent exactly once when such a stream ends (and not before).
C7_SmallStreamSinglePut ==
    stream_pos < cfg.data_part_size =>
        calls = [NoCalls EXCEPT !.put = IF eof THEN 1 ELSE 0]

\* A non-empty stream below the threshold has ended and its PUT succeeded.
C7_Witness ==
    /\ pc = "done" /\ eof /\ result.tag = "Ok"
    /\ stream_pos > 0 /\ stream_pos < cfg.data_part_size
    /\ calls.put = 1

(* ---------------------------------------------------------------------- *)
(* C8                                                                      *)
(* ---------------------------------------------------------------------- *)

\* C8: Start is called exactly once, when the bytes delivered first reach
\* data_part_size (which is when the accumulator first reaches it); PutObject
\* is never called for such a stream; every part task, of the first and of
\* later crossings, carries the session id that this one Start returned.
C8_StartOnceAtFirstCrossing ==
    /\ calls.start = (IF stream_pos >= cfg.data_part_size THEN 1 ELSE 0)
    /\ stream_pos >= cfg.data_part_size => calls.put = 0
    /\ upload_id \in {None, SessionId(1)}
    /\ \A i \in Tasks : join_handles[i].upload_id = SessionId(1)

\* A second threshold crossing has dispatched a part under the first session.
C8_Witness ==
    /\ pc = "reading"
    /\ Len(join_handles) >= 2
    /\ calls.start = 1
    /\ join_handles[2].upload_id = upload_id

(* ---------------------------------------------------------------------- *)
(* C9                                                                      *)
(* ---------------------------------------------------------------------- *)

\* The stream of at least data_part_size bytes has ended and every
\* dispatched part task has sent its request.
C9_Case ==
    /\ eof /\ stream_pos >= cfg.data_part_size
    /\ pc \notin {"reading", "starting"}
    /\ AllTasksStarted

\* C9 as stated: the number of UploadPart calls is
\* ceil(stream_size / data_part_size).
C9_Original ==
    C9_Case => calls.upload_part = CeilDiv(stream_pos, cfg.data_part_size)

\* C9 as amended: the number of UploadPart calls is at least 2 (one per
\* threshold crossing and one for the remainder, even when it is empty) and
\* at most floor(stream_size / data_part_size) + 1.
C9_UploadPartCallsBounded ==
    C9_Case =>
        /\ calls.upload_part >= 2
        /\ calls.upload_part <= (stream_pos \div cfg.data_part_size) + 1

\* A run whose number of UploadPart calls differs from the ceiling.
C9_Witness ==
    /\ C9_Case
    /\ calls.upload_part # CeilDiv(stream_pos, cfg.data_part_size)

(* ---------------------------------------------------------------------- *)
(* C10                                                                     *)
(* ---------------------------------------------------------------------- *)

\* C10: a successful multipart upload returns the number of bytes read from
\* the stream.
C10_ReturnsBytesRead == MultipartSuccess => result.bytes = stream_pos


(* ---------------------------------------------------------------------- *)
(* C11                                                                     *)
(* ---------------------------------------------------------------------- *)

\* C11: on the single-shot path the body of the PutObject request is the
\* whole stream in read order, and a successful call returns the stream
\* length.
C11_SingleShotBodyAndCount ==
    calls.put = 1 =>
        /\ put_body = StreamPrefix(stream_pos)
        /\ result.tag = "Ok" => result.bytes = stream_pos

\* A stream delivered in several reads was uploaded by one successful PUT.
C11_Witness ==
    /\ pc = "done" /\ result.tag = "Ok" /\ calls.put = 1
    /\ reads >= 2
    /\ BufLen(put_body) = stream_pos

(* ---------------------------------------------------------------------- *)
(* C12                                                                     *)
(* ---------------------------------------------------------------------- *)

\* The documented effective value of an option: the given value, or the
\* default when none is given, raised to the floor when it is below it.
C12_Documented(given, default, floor) ==
    LET v == IF given = None THEN default ELSE given
    IN  IF v < floor THEN floor ELSE v

\* C12: the effective configuration is the documented clamping of the
\* caller's options (buffer_size: default 100000, floor 4096; data_part_size:
\* default and floor 5242880; semaphore_permits: default 4, floor 1);
\* buffer_size = 100 gives 4096 and data_part_size = 0 gives 5242880;
\* clamping an effective value again changes nothing.
C12_OptionsClamped ==
    /\ cfg.buffer_size = C12_Documented(options.buffer_size, 100000, 4096)
    /\ cfg.data_part_size = C12_Documented(options.data_part_size, 5242880, 5242880)
    /\ cfg.semaphore_permits = C12_Documented(options.semaphore_permits, 4, 1)
    /\ options.buffer_size = 100 => cfg.buffer_size = 4096
    /\ options.data_part_size = 0 => cfg.data_part_size = 5242880
    /\ EffectiveBufferSize(cfg.buffer_size) = cfg.buffer_size
    /\ EffectiveDataPartSize(cfg.data_part_size) = cfg.data_part_size
    /\ EffectiveSemaphorePermits(cfg.semaphore_permits) = cfg.semaphore_permits

\* An upload runs with buffer_size = 100 and data_part_size = 0 clamped to
\* the floors.
C12_Witness ==
    /\ options.buffer_size = 100 /\ options.data_part_size = 0
    /\ options.semaphore_permits = 0
    /\ cfg = [buffer_size |-> 4096, data_part_size |-> 5242880,
              semaphore_permits |-> 1]
    /\ reads >= 1


(* ---------------------------------------------------------------------- *)
(* C13                                                                     *)
(* ---------------------------------------------------------------------- *)

\* The final remainder, dispatched at end of stream, is the last handle.
IsFinalPart(i) == eof /\ i = Len(join_handles)

\* Sizes of the dispatched parts, in dispatch order
PartSizes == [i \in Tasks |-> BufLen(join_handles[i].bytes)]

\* The 12 MB stream has been read to its end with the default buffer and a
\* threshold of 5242880.
C13_Example ==
    /\ eof /\ stream_pos = 12582912
    /\ cfg.buffer_size = 100000 /\ cfg.data_part_size = 5242880

\* C13 as stated: every part except the last contains exactly data_part_size
\* bytes, and the 12,582,912-byte stream is uploaded as parts of 5242880,
\* 5242880 and 2097152 bytes.
C13_Original ==
    /\ \A i \in Tasks :
         ~IsFinalPart(i) => PartSizes[i] = cfg.data_part_size
    /\ C13_Example => PartSizes = <<5242880, 5242880, 2097152>>

\* C13 as amended: every part except the last contains at least
\* data_part_size and fewer than data_part_size + buffer_size bytes, and the
\* 12,582,912-byte stream read in full 100000-byte buffers is uploaded as
\* parts of 5300000, 5300000 and 1982912 bytes.
C13_PartSizesFromThreshold ==
    /\ \A i \in Tasks :
         ~IsFinalPart(i) =>
            /\ PartSizes[i] >= cfg.data_part_size
            /\ PartSizes[i] < cfg.data_part_size + cfg.buffer_size
    /\ C13_Example => PartSizes = <<5300000, 5300000, 1982912>>

\* The 12 MB upload has completed successfully.
C13_Witness == C13_Example /\ MultipartSuccess /\ Len(join_handles) = 3


(* ---------------------------------------------------------------------- *)
(* C14                                                                     *)
(* ---------------------------------------------------------------------- *)

\* The single PutObject request was answered with success.
SingleShotSucceeded ==
    calls.put = 1 /\ responses.put = "ok" /\ join_handles = <<>>

\* Every dispatched part upload and the Complete request succeeded.
MultipartSucceeded ==
    /\ join_handles # <<>>
    /\ \A i \in Tasks : join_handles[i].state = "ok"
    /\ calls.complete = 1 /\ responses.complete = "ok"

\* C14: upload_object returns a byte count only if the PUT succeeded or all
\* part uploads and Complete succeeded; every other return is an error
\* without a byte count.
C14_SuccessOnlyIfBackendSucceeded ==
    /\ result.tag = "Ok" => (SingleShotSucceeded \/ MultipartSucceeded)
    /\ (pc = "done" /\ ~(SingleShotSucceeded \/ MultipartSucceeded)) =>
          (result.tag = "Err" /\ result.err # NoError /\ result.bytes = 0)

\* A multipart upload of several parts has returned a byte count.
C14_Witness ==
    /\ pc = "done" /\ result.tag = "Ok"
    /\ MultipartSucceeded /\ Len(join_handles) >= 2


(* ---------------------------------------------------------------------- *)
(* C15                                                                     *)
(* ---------------------------------------------------------------------- *)

EndedByPut == calls.put = 1 /\ responses.put = "ok"
EndedByComplete == calls.complete >= 1
EndedByAbort == calls.abort >= 1
EndedByErrorWithoutSession == result.tag = "Err" /\ upload_id = None

Indicator(b) == IF b THEN 1 ELSE 0

\* C15 (terminal state): when upload_object has returned, exactly one of
\* these holds: the single-shot PUT was done, Complete was called, Abort was
\* called, or an error was raised before any session existed.
C15_EndsInExactlyOneOutcome ==
    pc = "done" =>
        Indicator(EndedByPut) + Indicator(EndedByComplete)
          + Indicator(EndedByAbort) + Indicator(EndedByErrorWithoutSession) = 1

\* C15 (termination): under Fairness upload_object eventually returns.
C15_Terminates == <>(pc = "done")


(* ---------------------------------------------------------------------- *)
(* C16                                                                     *)
(* ---------------------------------------------------------------------- *)

\* The returns of the next_part calls, in call order
NextPartCalls ==
    {c \in 1..Len(mgr_returns) : mgr_returns[c].op = "next_part"}

\* The k-th next_part call is call number NthNextPart(k) of the run
NthNextPart(k) ==
    CHOOSE c \in NextPartCalls :
        Cardinality({b \in NextPartCalls : b <= c}) = k

RequestsOfCall(c) ==
    {q \in 1..Len(mgr_requests) : mgr_requests[q].call = c}

\* C16: the k-th next_part call on a manager uses part number k in its
\* request and returns k when it succeeds; a failed call consumes its number,
\* so the counter of the manager is always one more than the calls made.
C16_KthNextPartIsPartK ==
    /\ \A k \in 1..Cardinality(NextPartCalls) :
         LET c == NthNextPart(k) IN
         /\ mgr_returns[c].tag = "Ok" => mgr_returns[c].part_number = k
         /\ \A q \in RequestsOfCall(c) : mgr_requests[q].part_number = k
    /\ mgr.state = "open" => mgr.part_index = Cardinality(NextPartCalls) + 1

C16_Witness ==
    /\ Cardinality(NextPartCalls) = 3
    /\ mgr_returns[NthNextPart(1)].tag = "Ok"
    /\ mgr_returns[NthNextPart(2)].tag = "Err"
    /\ mgr_returns[NthNextPart(3)] =
         [op |-> "next_part", tag |-> "Ok", part_number |-> 3]

(* ---------------------------------------------------------------------- *)
(* C17                                                                     *)
(* ---------------------------------------------------------------------- *)

CompleteRequests ==
    {q \in 1..Len(mgr_requests) : mgr_requests[q].op = "complete"}

LastCompleteRequest ==
    mgr_requests[CHOOSE q \in CompleteRequests :
                    \A r \in CompleteRequests : r <= q]

\* The part number sent is the usize part number the caller recorded.
SamePartNumber(i32, u) == u.hi = 0 /\ u.lo = i32

\* C17: complete sends exactly the caller's list of (e_tag, part_number)
\* entries, in the caller's order, under the manager's own session id.
C17_CompleteSendsCallersList ==
    CompleteRequests # {} =>
        LET sent == LastCompleteRequest IN
        /\ sent.upload_id = mgr.upload_id
        /\ Len(sent.parts) = Len(mgr_e_tags)
        /\ \A i \in 1..Len(mgr_e_tags) :
             /\ sent.parts[i].e_tag = mgr_e_tags[i].e_tag
             /\ SamePartNumber(sent.parts[i].part_number,
                               mgr_e_tags[i].part_number)


(* ---------------------------------------------------------------------- *)
(* C18                                                                     *)
(* ---------------------------------------------------------------------- *)

\* A part-upload or join failure has been recorded and upload_object has
\* returned an error.
ReturnedAfterPartFailure ==
    pc = "done" /\ result.tag = "Err" /\ pending_err # NoError

\* C18: when upload_object returns an error after a part-upload or join
\* failure, no part task it dispatched is still pending or running.
C18_AllTasksAwaitedBeforeErrorReturn ==
    ReturnedAfterPartFailure => \A i \in Tasks : Finished(join_handles[i])

(* ---------------------------------------------------------------------- *)
(* C19                                                                     *)
(* ---------------------------------------------------------------------- *)

\* C19: once Abort has been issued for the session, no part task begins an
\* UploadPart network call.
C19_NoUploadPartAfterAbort ==
    [][calls.abort >= 1 => calls'.upload_part = calls.upload_part]_vars

(* ---------------------------------------------------------------------- *)
(* C20                                                                     *)
(* ---------------------------------------------------------------------- *)

AllTasksFinished == \A i \in Tasks : Finished(join_handles[i])

\* C20: the available permits never exceed semaphore_permits, and once every
\* dispatched task has finished, by success, failure or panic, all
\* semaphore_permits permits are available.
C20_PermitsNeverLeaked ==
    /\ permits <= cfg.semaphore_permits
    /\ AllTasksFinished => permits = cfg.semaphore_permits

C20_Witness ==
    /\ Len(join_handles) >= 3
    /\ AllTasksFinished
    /\ \E i, j \in Tasks :
         join_handles[i].state = "ok" /\ join_handles[j].state = "err"
    /\ permits = cfg.semaphore_permits


(* ---------------------------------------------------------------------- *)
(* C21                                                                     *)
(* ---------------------------------------------------------------------- *)

Dispatched(i) == i \in Tasks
PerformedUploadPart(i) == i \in Tasks /\ join_handles[i].state # "spawned"

\* C21: under fair scheduling every dispatched part task eventually acquires
\* a permit and performs its UploadPart call, and an UploadPart call is made
\* only by a task that has just acquired a permit.
C21_NoStarvationAtGate ==
    /\ \A i \in 1..MaxTasks : Dispatched(i) ~> PerformedUploadPart(i)
    /\ [][calls'.upload_part # calls.upload_part => permits > 0]_vars

C21_Witness ==
    /\ cfg.semaphore_permits = 1
    /\ Len(join_handles) >= 3
    /\ AllTasksStarted
    /\ calls.upload_part = Len(join_handles)


(* ---------------------------------------------------------------------- *)
(* C22                                                                     *)
(* ---------------------------------------------------------------------- *)

\* The tasks that have taken a part number
Numbered == {i \in Tasks : join_handles[i].state # "spawned"}

NumbersTaken == {join_handles[i].part_number : i \in Numbered}

\* C22: no two part tasks hold the same part number; after n tasks have
\* taken a number the numbers taken are exactly 1..n; a task takes its
\* number when it starts executing, so a dispatched task that has not started
\* holds none and has not moved the counter.
C22_PartNumbersUnique ==
    /\ \A i, j \in Numbered :
         join_handles[i].part_number = join_handles[j].part_number => i = j
    /\ NumbersTaken = 1..Cardinality(Numbered)
    /\ counter = CounterStart + Cardinality(Numbered)
    /\ \A i \in Tasks \ Numbered : join_handles[i].part_number = 0

C22_Witness ==
    /\ Len(join_handles) >= 3
    /\ Cardinality(Numbered) = 2
    /\ join_handles[1].state = "spawned"
    /\ join_handles[3].part_number = 1
    /\ join_handles[2].part_number = 2


(* ---------------------------------------------------------------------- *)
(* C23                                                                     *)
(* ---------------------------------------------------------------------- *)

StartReturnedSession == responses.start = "ok" /\ upload_id # None

\* Every dispatched task has been joined with a successful result.
AllJoinedOk ==
    /\ join_idx = Len(join_handles) + 1
    /\ \A i \in Tasks : join_handles[i].state = "ok"
    /\ Len(e_tags) = Len(join_handles)

\* C23: no UploadPart call is made before Start has returned a session id;
\* every UploadPart call carries that id; Complete is called only after
\* every dispatched task has been joined successfully; Complete and Abort
\* are never both called.
C23_BackendCallOrder ==
    /\ calls.upload_part > 0 => StartReturnedSession
    /\ \A i \in Tasks : StartReturnedSession /\ join_handles[i].upload_id = upload_id
    /\ calls.complete >= 1 => AllJoinedOk
    /\ ~(calls.complete >= 1 /\ calls.abort >= 1)

C23_Witness ==
    /\ pc = "completing"
    /\ calls.complete = 1
    /\ calls.upload_part = 3
    /\ Len(join_handles) = 3
    /\ \A i \in Tasks : join_handles[i].upload_id = SessionId(1)


(* ---------------------------------------------------------------------- *)
(* C24                                                                     *)
(* ---------------------------------------------------------------------- *)

StartFailed == responses.start = "err"

\* C24: if Start fails, upload_object returns that error at once: no part
\* task is dispatched and no UploadPart, Complete, Abort or PutObject call is
\* made in the run.
C24_StartFailureReturnsAtOnce ==
    StartFailed =>
        /\ pc = "done"
        /\ result.tag = "Err"
        /\ result.err \in {SdkError("create_multipart_upload", 0),
                           InternalError("create_multipart_upload", 0)}
        /\ join_handles = <<>>
        /\ calls = [NoCalls EXCEPT !.start = 1]
        /\ BufLen(data_part_buffer) = stream_pos

C24_Witness ==
    /\ StartFailed
    /\ pc = "done"
    /\ reads >= 2
    /\ result.err = InternalError("create_multipart_upload", 0)


(* ---------------------------------------------------------------------- *)
(* C25                                                                     *)
(* ---------------------------------------------------------------------- *)

\* join_handle.await returned Err: the task panicked or was cancelled.
JoinFailed == pending_err = JoinError

\* C25: when a dispatched part task cannot be joined, upload_object calls
\* Abort, never calls Complete, and returns JoinError.
C25_JoinFailureAbortsAndReturnsJoinError ==
    JoinFailed =>
        /\ calls.abort = 1
        /\ calls.complete = 0
        /\ pc = "done" => result = Err(JoinError)


(* ---------------------------------------------------------------------- *)
(* C26                                                                     *)
(* ---------------------------------------------------------------------- *)

FailedTasks == {i \in Tasks : join_handles[i].state \in {"err", "panicked"}}

EarliestFailed == CHOOSE i \in FailedTasks : \A j \in FailedTasks : i <= j

\* C26: when part tasks fail and Abort succeeds, upload_object returns the
\* error of the earliest-dispatched failing task, and nothing of the tasks
\* dispatched after it.
C26_EarliestFailureReturned ==
    (pc = "done" /\ responses.abort = "ok") =>
        /\ FailedTasks # {}
        /\ LET t == join_handles[EarliestFailed] IN
           /\ result.tag = "Err"
           /\ t.state = "err" => result.err = t.err /\ result.err.n = t.part_number
           /\ t.state = "panicked" => result.err = JoinError
        /\ Len(e_tags) = EarliestFailed - 1

C26_Witness ==
    /\ pc = "done"
    /\ responses.abort = "ok"
    /\ Cardinality(FailedTasks) >= 2
    /\ EarliestFailed = 1
    /\ join_handles[1].state = "err"
    /\ join_handles[2].state = "ok"
    /\ join_handles[3].state = "panicked"
    /\ result.err = join_handles[1].err


(* ---------------------------------------------------------------------- *)
(* C27                                                                     *)
(* ---------------------------------------------------------------------- *)

\* upload_object has left the read loop before the end of the stream and
\* not through a failed Start: a stream read failed.
ReadFailed == result.tag # "none" /\ ~eof /\ ~StartFailed

\* C27: a stream read error makes upload_object return the StdIo error;
\* after it no read is attempted, no part is dispatched, and neither
\* PutObject nor Complete is called.
C27_ReadErrorReturnsAtOnce ==
    /\ [](ReadFailed =>
            /\ pc = "done"
            /\ result = Err(StdIoError)
            /\ calls.put = 0
            /\ calls.complete = 0)
    /\ [][ReadFailed =>
            /\ reads' = reads
            /\ stream_pos' = stream_pos
            /\ Len(join_handles') = Len(join_handles)
            /\ result' = result]_vars

C27_Witness ==
    /\ ReadFailed
    /\ reads >= 3
    /\ Len(join_handles) >= 1
    /\ BufLen(data_part_buffer) > 0


(* ---------------------------------------------------------------------- *)
(* C28                                                                     *)
(* ---------------------------------------------------------------------- *)

PutFailed == responses.put = "err"

\* C28: if the single-shot PutObject call fails, upload_object returns that
\* error and makes no Abort call and no other backend call.
C28_PutFailureReturnsError ==
    PutFailed =>
        /\ pc = "done"
        /\ result = Err(SdkError("put_object", 0))
        /\ calls = [NoCalls EXCEPT !.put = 1]
        /\ join_handles = <<>>

C28_Witness ==
    /\ PutFailed
    /\ pc = "done"
    /\ reads >= 2
    /\ BufLen(put_body) = stream_pos

(* ---------------------------------------------------------------------- *)
(* C29                                                                     *)
(* ---------------------------------------------------------------------- *)

\* C29: each dispatched part causes at most one UploadPart call: the number
\* of UploadPart calls is the number of tasks that have started, never
\* exceeds the number of dispatched parts and equals it once all have run.
C29_OneUploadPartPerPart ==
    /\ calls.upload_part = Cardinality(Numbered)
    /\ calls.upload_part <= Len(join_handles)
    /\ AllTasksFinished => calls.upload_part = Len(join_handles)

C29_Witness ==
    /\ Len(join_handles) = 3
    /\ AllTasksFinished
    /\ join_handles[1].state = "err"
    /\ join_handles[2].state = "err"
    /\ join_handles[3].state = "ok"
    /\ calls.upload_part = 3

(* ---------------------------------------------------------------------- *)
(* C30                                                                     *)
(* ---------------------------------------------------------------------- *)

\* C30: the step that dispatches a part inside the read loop waits for
\* nothing: it leaves the driving loop at its next stream read, the new task
\* merely spawned, the other tasks and the permits as they were; and the
\* read is enabled whatever the part tasks are doing.
C30_FireAndContinue ==
    /\ [][(Len(join_handles') > Len(join_handles) /\ ~eof') =>
            /\ pc' = "reading"
            /\ permits' = permits
            /\ join_handles'[Len(join_handles')].state = "spawned"
            /\ \A i \in Tasks : join_handles'[i] = join_handles[i]]_vars
    /\ []((~eof /\ result.tag = "none" /\ pc # "starting") =>
            ENABLED (ReadEof \/ ReadError))

C30_Witness ==
    /\ pc = "reading"
    /\ reads >= 4
    /\ Len(join_handles) >= 2
    /\ join_handles[1].state = "spawned"
    /\ join_handles[2].state = "uploading"


(* ---------------------------------------------------------------------- *)
(* C31                                                                     *)
(* ---------------------------------------------------------------------- *)

\* The dispatched part tasks that have not finished; each owns its bytes.
Unfinished == {i \in Tasks : ~Finished(join_handles[i])}

\* C31: at any time at most semaphore_permits dispatched part tasks are
\* unfinished.
C31_UnfinishedTasksBounded == Cardinality(Unfinished) <= cfg.semaphore_permits


(* ---------------------------------------------------------------------- *)
(* C32                                                                     *)
(* ---------------------------------------------------------------------- *)

\* The tag the backend returned for the UploadPart call made with part
\* number n
TagReturnedFor(n) ==
    LET i == CHOOSE j \in Tasks : join_handles[j].part_number = n
    IN  ETagOf(n, join_handles[i].bytes)

\* C32: on a successful multipart run the list passed to Complete has
\* exactly one entry per dispatched part, none duplicated, and each entry
\* pairs a part number with the tag the backend returned for the UploadPart
\* call made with that part number.
C32_CompleteListPairsTagsWithNumbers ==
    MultipartSuccess =>
        /\ Len(complete_arg) = Len(join_handles)
        /\ {complete_arg[k].part_number : k \in 1..Len(complete_arg)}
             = 1..Len(join_handles)
        /\ \A k \in 1..Len(complete_arg) :
             complete_arg[k].e_tag = TagReturnedFor(complete_arg[k].part_number)

C32_Witness ==
    /\ MultipartSuccess
    /\ Len(complete_arg) = 3
    /\ complete_arg[1].part_number = 3
    /\ complete_arg[1].e_tag = ETagOf(3, join_handles[1].bytes)
    /\ complete_arg[3].part_number = 1


(* ---------------------------------------------------------------------- *)
(* C33                                                                     *)
(* ---------------------------------------------------------------------- *)

\* complete or abort has succeeded on the manager.
SessionClosed ==
    \E c \in 1..Len(mgr_returns) :
        mgr_returns[c].op \in {"complete", "abort"} /\ mgr_returns[c].tag = "Ok"

\* The requests sent to the backend for the manager's session id; a
\* presigned part request is handed to the caller, not sent.
SessionRequests ==
    {q \in 1..Len(mgr_requests) :
        /\ mgr_requests[q].upload_id = mgr.upload_id
        /\ mgr_requests[q].op # "presign_part"}

\* C33: after complete or abort has succeeded on a manager, no later
\* next_part, complete or abort call sends a request for its session id.
C33_NoRequestAfterSessionClosed ==
    [][SessionClosed => SessionRequests' = SessionRequests]_vars


(* ---------------------------------------------------------------------- *)
(* C34                                                                     *)
(* ---------------------------------------------------------------------- *)

\* The bytes of the first k dispatched parts, in dispatch order
RECURSIVE DispatchedBytes(_)
DispatchedBytes(k) ==
    IF k = 0 THEN <<>>
    ELSE BufConcat(DispatchedBytes(k - 1), join_handles[k].bytes)

RECURSIVE SumOfPartSizes(_)
SumOfPartSizes(k) ==
    IF k = 0 THEN 0 ELSE SumOfPartSizes(k - 1) + BufLen(join_handles[k].bytes)

\* C34: the bytes read so far are the bytes of the parts dispatched so far
\* followed by the accumulator, each byte exactly once; the accumulator is
\* empty right after a dispatch; the bytes of a dispatched part never change.
C34_BytesConserved ==
    /\ [](/\ SumOfPartSizes(Len(join_handles)) + BufLen(data_part_buffer)
               = stream_pos
          /\ BufConcat(DispatchedBytes(Len(join_handles)), data_part_buffer)
               = StreamPrefix(stream_pos)
          /\ ~eof => total_bytes = stream_pos)
    /\ [][/\ Len(join_handles') > Len(join_handles) => data_part_buffer' = <<>>
          /\ \A i \in Tasks : join_handles'[i].bytes = join_handles[i].bytes]_vars

C34_Witness ==
    /\ pc = "reading"
    /\ Len(join_handles) = 2
    /\ BufLen(join_handles[1].bytes) # BufLen(join_handles[2].bytes)
    /\ BufLen(data_part_buffer) > 0
    /\ stream_pos > 2 * cfg.data_part_size


(* ---------------------------------------------------------------------- *)
(* C35                                                                     *)
(* ---------------------------------------------------------------------- *)

\* C35: every part upload_object uploads in a multipart session contains at
\* least one byte.
C35_NoEmptyPartUploaded ==
    \A i \in Numbered : BufLen(join_handles[i].bytes) > 0


(* ---------------------------------------------------------------------- *)
(* C36                                                                     *)
(* ---------------------------------------------------------------------- *)

\* The read loop was left by `break`: end of stream, no single-shot PUT.
LoopExitedByBreak == eof /\ calls.put = 0

\* `upload_id.ok_or(Error::internal("upload_id was None on multipart
\* upload"))?` took the error branch.
SessionMissing == result = Err(InternalError("upload_object", 0))

\* C36: the session-missing error is never returned: when the read loop is
\* left by break a part has been dispatched and the session id is set; at
\* each stream read, the end of the stream included, the accumulator is
\* below the threshold.
C36_SessionMissingUnreachable ==
    /\ ~SessionMissing
    /\ LoopExitedByBreak => join_handles # <<>> /\ upload_id # None
    /\ pc = "reading" => BufLen(data_part_buffer) < cfg.data_part_size

C36_Witness ==
    /\ LoopExitedByBreak
    /\ pc = "joining"
    /\ stream_pos = cfg.data_part_size
    /\ Len(join_handles) = 2
    /\ upload_id = SessionId(1)


(* ---------------------------------------------------------------------- *)
(* C37                                                                     *)
(* ---------------------------------------------------------------------- *)

\* C37: a part dispatched at a threshold crossing has a size s with
\* data_part_size <= s < data_part_size + buffer_size; the final part,
\* dispatched at end of stream, is smaller than data_part_size.
C37_PartSizeBounds ==
    \A i \in Tasks :
        LET s == BufLen(join_handles[i].bytes) IN
        IF IsFinalPart(i)
        THEN s < cfg.data_part_size
        ELSE cfg.data_part_size <= s /\ s < cfg.data_part_size + cfg.buffer_size

C37_Witness ==
    /\ eof
    /\ Len(join_handles) = 3
    /\ BufLen(join_handles[1].bytes) > cfg.data_part_size
    /\ BufLen(join_handles[2].bytes) = cfg.data_part_size
    /\ BufLen(join_handles[3].bytes) > 0

====
